---- MODULE Spec2Model ----
(***************************************************************************)
(* Model of GitPython's tag references (git/refs/tag.py) and of the diff   *)
(* header parser (lib/git/diff.py).                                        *)
(*                                                                         *)
(* Three specifications share the variables:                               *)
(*   SpecCommit  - TagReference.commit resolving a tag reference through   *)
(*                 the object store;                                       *)
(*   SpecTagCmd  - TagReference.create and TagReference.delete issuing     *)
(*                 commands to the git backend;                            *)
(*   SpecDiff    - the loop of Diff.list_from_string over the segments of  *)
(*                 a diff text.                                            *)
(***************************************************************************)
EXTENDS Integers, Sequences, FiniteSets, TLC

VARIABLES
    pc,         \* position of the running call
    result,     \* value returned by the call (a tagged record)
    error,      \* exception leaving the call (a tagged record)
    store,      \* object store: index -> [type, object]
    refObj,     \* index of the object the tag reference points to (self.object)
    obj,        \* local `obj` of TagReference.commit
    hops,       \* number of times `obj = obj.object` ran in this call
    localTags,  \* names of the tags of the local repository
    args,       \* arguments of the running create / delete call
    calls,      \* commands requested from the backend by this call, in order
    j,          \* position of delete's `for tag in tags` loop
    text,       \* lines of the diff text given to list_from_string
    endsNL,     \* whether the diff text ends with a newline
    i,          \* position of list_from_string's loop over the segments
    diffs       \* list_from_string's `diffs` list

vars == <<pc, result, error, store, refObj, obj, hops, localTags, args, calls, j,
          text, endsNL, i, diffs>>

tagVars  == <<store, refObj, obj, hops>>
cmdVars  == <<localTags, args, calls, j>>
diffVars == <<text, endsNL, i, diffs>>

(***************************************************************************)
(* Bounds of the model.                                                    *)
(***************************************************************************)
NObj == 4        \* objects in the object store
MaxTags == 2     \* tag names handed to one delete call
MaxLines == 4    \* lines of a diff text

(***************************************************************************)
(* Python values.                                                          *)
(***************************************************************************)
None == "<None>"

NoResult == [kind |-> "unset"]
NoError  == [exc |-> "none"]
NoArgs   == [op |-> "none"]

\* Python truth value of a str-or-None value
Truthy(v) == v # None /\ v # ""

\* Python `a or b`
PyOr(a, b) == IF Truthy(a) THEN a ELSE b

(***************************************************************************)
(* TagReference.commit                                                     *)
(***************************************************************************)
ObjTypes == {"commit", "tag", "tree", "blob"}

\* hexsha of the object with a given index
Hexsha(k) == <<"1a", "2b", "3c", "4d", "5e", "6f">>[k]

\* the reference itself, as `%s` prints it
self == "refs/tags/v1"

\* Object stores: a tag object points to an object created before it, every
\* other object points nowhere (object = 0).
Stores ==
    { s \in [1..NObj -> [type : ObjTypes, object : 0..(NObj - 1)]] :
        \A k \in 1..NObj :
            IF s[k].type = "tag" THEN s[k].object \in 1..(k - 1)
                                 ELSE s[k].object = 0 }

InitCommit ==
    /\ pc = "idle"
    /\ result = NoResult
    /\ error = NoError
    /\ store \in Stores
    /\ refObj \in 1..NObj
    /\ obj = 0
    /\ hops = 0
    /\ localTags = {}
    /\ args = NoArgs
    /\ calls = <<>>
    /\ j = 0
    /\ text = <<>>
    /\ endsNL = FALSE
    /\ i = 0
    /\ diffs = <<>>

\* obj = self.object
commit_begin ==
    /\ pc = "idle"
    /\ obj' = refObj
    /\ pc' = "commit_loop"
    /\ UNCHANGED <<result, error, store, refObj, hops>>
    /\ UNCHANGED cmdVars /\ UNCHANGED diffVars

\* the mutant: `if` for `while`, one link is followed and its target returned
commit_follow_once ==
    /\ pc = "commit_loop"
    /\ store[obj].type = "tag"
    /\ obj' = store[obj].object
    /\ hops' = hops + 1
    /\ pc' = "returned"
    /\ result' = [kind |-> "object", hexsha |-> Hexsha(store[obj].object)]
    /\ UNCHANGED <<error, store, refObj>>
    /\ UNCHANGED cmdVars /\ UNCHANGED diffVars

\* while obj.type != 'commit': if obj.type == "tag": obj = obj.object
commit_follow ==
    /\ pc = "commit_loop"
    /\ store[obj].type # "commit"
    /\ store[obj].type = "tag"
    /\ obj' = store[obj].object
    /\ hops' = hops + 1
    /\ UNCHANGED <<pc, result, error, store, refObj>>
    /\ UNCHANGED cmdVars /\ UNCHANGED diffVars

\* the mutant: the message names the type of self.object, not of obj
commit_raise_first_type ==
    /\ pc = "commit_loop"
    /\ store[obj].type \notin {"commit", "tag"}
    /\ pc' = "raised"
    /\ error' = [exc |-> "ValueError", fmt_args |-> <<self, store[refObj].type>>]
    /\ UNCHANGED <<result, store, refObj, obj, hops>>
    /\ UNCHANGED cmdVars /\ UNCHANGED diffVars

\* else: raise ValueError("Cannot resolve commit as tag %s points to a %s object ..."
\*                        % (self, obj.type))
commit_raise ==
    /\ pc = "commit_loop"
    /\ store[obj].type # "commit"
    /\ store[obj].type # "tag"
    /\ pc' = "raised"
    /\ error' = [exc |-> "ValueError", fmt_args |-> <<self, store[obj].type>>]
    /\ UNCHANGED <<result, store, refObj, obj, hops>>
    /\ UNCHANGED cmdVars /\ UNCHANGED diffVars

\* return obj
commit_return ==
    /\ pc = "commit_loop"
    /\ store[obj].type = "commit"
    /\ pc' = "returned"
    /\ result' = [kind |-> "object", hexsha |-> Hexsha(obj)]
    /\ UNCHANGED <<error, store, refObj, obj, hops>>
    /\ UNCHANGED cmdVars /\ UNCHANGED diffVars

NextCommit ==
    \/ commit_begin
    \/ commit_follow
    \/ commit_raise
    \/ commit_return

\* The property body runs to completion once entered: weak fairness of its steps.
SpecCommit == InitCommit /\ [][NextCommit]_vars /\ WF_vars(NextCommit)

----
\* The end of the chain of tag objects that starts at object k.
RECURSIVE ChainEnd(_)
ChainEnd(k) == IF store[k].type = "tag" THEN ChainEnd(store[k].object) ELSE k

\* The number of tag objects of the chain that starts at object k.
RECURSIVE ChainLen(_)
ChainLen(k) == IF store[k].type = "tag" THEN 1 + ChainLen(store[k].object) ELSE 0

\* C1: resolving the commit of a tag reference whose target is a chain of k >= 0
\* tag objects ending in a commit terminates and returns exactly that terminal
\* commit, after following one `object` link per tag object of the chain; the
\* value returned is never a tag object.
C1_ChainResolvesToCommit ==
    /\ [](pc = "returned" =>
            /\ result.kind = "object"
            /\ result.hexsha = Hexsha(ChainEnd(refObj))
            /\ store[ChainEnd(refObj)].type = "commit"
            /\ hops = ChainLen(refObj))
    /\ [](store[ChainEnd(refObj)].type = "commit" => <>(pc = "returned"))

C1_Witness ==
    /\ pc = "returned"
    /\ ChainLen(refObj) = 2
    /\ hops = 2
    /\ result.hexsha = Hexsha(ChainEnd(refObj))

\* C2 (as stated): when the resolution reaches a tree or a blob, directly or after
\* tag hops, it fails with an error that carries the offending object's
\* identifier and its kind.
C2_ErrorCarriesObjectId ==
    (pc = "raised" /\ error.exc = "ValueError") =>
        /\ \E k \in DOMAIN error.fmt_args : error.fmt_args[k] = Hexsha(obj)
        /\ \E k \in DOMAIN error.fmt_args : error.fmt_args[k] = store[obj].type

\* C2 (amended): when the resolution reaches a tree or a blob, directly or after
\* any number of tag hops, no value is returned and the call fails with a
\* ValueError whose message is formatted from the tag reference and the kind of
\* the offending object; and it fails so whenever the chain ends in a tree or blob.
C2_ErrorCarriesRefAndKind ==
    /\ (pc = "raised" /\ error.exc = "ValueError") =>
            /\ store[obj].type \in {"tree", "blob"}
            /\ obj = ChainEnd(refObj)
            /\ hops = ChainLen(refObj)
            /\ error.fmt_args = <<self, store[obj].type>>
            /\ result = NoResult
    /\ (pc = "returned") => store[ChainEnd(refObj)].type \notin {"tree", "blob"}

C2_Witness ==
    /\ pc = "raised"
    /\ hops = 2
    /\ store[obj].type = "tree"
    /\ error.fmt_args = <<self, "tree">>

(***************************************************************************)
(* TagReference.create and TagReference.delete                             *)
(***************************************************************************)
TagNames == {"v1", "v2"}
Messages == {None, "", "release"}

_common_path_default == "refs/tags"

\* err.status == 1
BenignStatus == 1

\* Exit statuses of `git tag <tag> <ref>`: the backend refuses to replace an
\* existing tag unless forced, and may fail for reasons of its own.
git_tag_status(tag, force) ==
    IF tag \in localTags /\ ~force THEN {128} ELSE {0, 128}

\* Exit statuses of `git tag -d <tags>`: fails when a named tag does not exist.
git_tag_d_status(tags) ==
    IF \A k \in 1..Len(tags) : tags[k] \in localTags THEN {0} ELSE {1}

\* Exit statuses of `git push origin <tag>`.
git_push_status == {0, 1, 128}

GitCommandError(st) == [exc |-> "GitCommandError", status |-> st]

TagTuples == UNION { [1..n -> TagNames] : n \in 0..MaxTags }

InitTagCmd ==
    /\ pc = "idle"
    /\ result = NoResult
    /\ error = NoError
    /\ store = [k \in 1..NObj |-> [type |-> "commit", object |-> 0]]
    /\ refObj = 1
    /\ obj = 0
    /\ hops = 0
    /\ localTags \in SUBSET TagNames
    /\ args = NoArgs
    /\ calls = <<>>
    /\ j = 0
    /\ text = <<>>
    /\ endsNL = FALSE
    /\ i = 0
    /\ diffs = <<>>

\* args = (tag, ref); kwargs['m'] = message; kwargs['f'] = True;
\* repo.git.tag(*args, **kwargs)
create_tag ==
    /\ pc = "idle"
    /\ \E tag \in TagNames, push \in BOOLEAN, message \in Messages, force \in BOOLEAN :
        LET kwargs == (IF Truthy(message) THEN {"m"} ELSE {})
                        \cup (IF force THEN {"f"} ELSE {})
        IN \E st \in git_tag_status(tag, force) :
            /\ args' = [op |-> "create", tag |-> tag, push |-> push,
                        message |-> message, force |-> force, kwargs |-> kwargs]
            /\ calls' = <<[cmd |-> "tag", argv |-> <<tag, "HEAD">>, kw |-> kwargs,
                           status |-> st]>>
            /\ IF st = 0
                 THEN /\ localTags' = localTags \cup {tag}
                      /\ pc' = "create_tagged"
                      /\ error' = error
                 ELSE /\ localTags' = localTags
                      /\ pc' = "raised"
                      /\ error' = GitCommandError(st)
    /\ UNCHANGED <<result, j>>
    /\ UNCHANGED tagVars /\ UNCHANGED diffVars

\* the mutant: a failed push is ignored and the reference is returned
create_push_ignores_failure ==
    /\ pc = "create_tagged"
    /\ args.push
    /\ \E st \in git_push_status :
        /\ calls' = Append(calls, [cmd |-> "push", argv |-> <<"origin", args.tag>>,
                                   kw |-> args.kwargs \ {"m"}, status |-> st])
        /\ pc' = "create_pushed"
        /\ result' = result
    /\ UNCHANGED <<error, localTags, args, j>>
    /\ UNCHANGED tagVars /\ UNCHANGED diffVars

\* if push: del kwargs['m']; try: repo.git.push('origin', tag, **kwargs)
\* except GitCommandError as err: if err.status == 1: pass; return False
create_push ==
    /\ pc = "create_tagged"
    /\ args.push
    /\ \E st \in git_push_status :
        /\ calls' = Append(calls, [cmd |-> "push", argv |-> <<"origin", args.tag>>,
                                   kw |-> args.kwargs \ {"m"}, status |-> st])
        /\ IF st = 0
             THEN /\ pc' = "create_pushed"
                  /\ result' = result
             ELSE /\ pc' = "returned"
                  /\ result' = [kind |-> "False"]
    /\ UNCHANGED <<error, localTags, args, j>>
    /\ UNCHANGED tagVars /\ UNCHANGED diffVars

\* return TagReference(repo, "%s/%s" % (cls._common_path_default, tag))
create_return ==
    /\ \/ pc = "create_pushed"
       \/ pc = "create_tagged" /\ ~args.push
    /\ pc' = "returned"
    /\ result' = [kind |-> "TagReference",
                  path |-> _common_path_default \o "/" \o args.tag]
    /\ UNCHANGED <<error, localTags, args, calls, j>>
    /\ UNCHANGED tagVars /\ UNCHANGED diffVars

\* repo.git.tag("-d", *tags)
delete_tag ==
    /\ pc = "idle"
    /\ \E push \in BOOLEAN, tags \in TagTuples :
        \E st \in git_tag_d_status(tags) :
            /\ args' = [op |-> "delete", push |-> push, tags |-> tags]
            /\ calls' = <<[cmd |-> "tag", argv |-> <<"-d">> \o tags, kw |-> {},
                           status |-> st]>>
            /\ localTags' = localTags \ { tags[k] : k \in 1..Len(tags) }
            /\ IF st = 0
                 THEN /\ pc' = "delete_tagged"
                      /\ error' = error
                 ELSE /\ pc' = "raised"
                      /\ error' = GitCommandError(st)
    /\ j' = 1
    /\ UNCHANGED result
    /\ UNCHANGED tagVars /\ UNCHANGED diffVars

\* if push: kwargs['d'] = True; for tag in tags:
\*   try: repo.git.push('origin', tag, **kwargs)
\*   except GitCommandError as err: if err.status == 1: pass; return False
delete_push ==
    /\ pc = "delete_tagged"
    /\ args.push
    /\ j <= Len(args.tags)
    /\ \E st \in git_push_status :
        /\ calls' = Append(calls, [cmd |-> "push", argv |-> <<"origin", args.tags[j]>>,
                                   kw |-> {"d"}, status |-> st])
        /\ IF st = 0
             THEN /\ j' = j + 1
                  /\ pc' = pc
                  /\ result' = result
             ELSE /\ j' = j
                  /\ pc' = "returned"
                  /\ result' = [kind |-> "False"]
    /\ UNCHANGED <<error, localTags, args>>
    /\ UNCHANGED tagVars /\ UNCHANGED diffVars

\* falling off the end of delete: returns None
delete_return ==
    /\ pc = "delete_tagged"
    /\ ~args.push \/ j > Len(args.tags)
    /\ pc' = "returned"
    /\ result' = [kind |-> "None"]
    /\ UNCHANGED <<error, localTags, args, calls, j>>
    /\ UNCHANGED tagVars /\ UNCHANGED diffVars

NextTagCmd ==
    \/ create_tag
    \/ create_push
    \/ create_return
    \/ delete_tag
    \/ delete_push
    \/ delete_return

SpecTagCmd == InitTagCmd /\ [][NextTagCmd]_vars

----
\* C3 (as stated): in create with push set, a failure of the push command is
\* propagated to the caller as a command error unless its status is the benign
\* status 1; only a benign-status failure is swallowed and turned into the
\* boolean return value.
C3_NonBenignPushFailurePropagates ==
    (/\ args.op = "create"
     /\ Len(calls) = 2
     /\ calls[2].cmd = "push"
     /\ calls[2].status \notin {0, BenignStatus})
        => (/\ pc = "raised"
            /\ error.exc = "GitCommandError"
            /\ error.status = calls[2].status)

\* C4 (as stated): delete with push set first requests the local deletion of the
\* named tags and afterwards a push-deletion for each named tag; a benign-status
\* push failure for one tag does not stop the push-deletions of the remaining tags.
C4_DeletePushesEveryTag ==
    (/\ args.op = "delete"
     /\ pc = "returned"
     /\ args.push
     /\ \A k \in 2..Len(calls) : calls[k].status \in {0, BenignStatus})
        => (/\ Len(calls) = 1 + Len(args.tags)
            /\ calls[1].cmd = "tag"
            /\ calls[1].argv = <<"-d">> \o args.tags
            /\ \A k \in 1..Len(args.tags) :
                /\ calls[k + 1].cmd = "push"
                /\ calls[k + 1].argv = <<"origin", args.tags[k]>>
                /\ "d" \in calls[k + 1].kw)

Line(kind, a, b, c) == [kind |-> kind, a |-> a, b |-> b, c |-> c]

\* "diff --git a/old.py b/new.py"
L_pair == Line("diff --git", "old.py", "new.py", None)
\* "diff --git" followed by something that is no path pair
L_nopair == Line("diff --git", None, None, None)
L_sim == Line("similarity index", "90", None, None)
L_from == Line("rename from", "old.py", None, None)
L_to == Line("rename to", "new.py", None, None)
L_old == Line("old mode", "100644", None, None)
L_new == Line("new mode", "100755", None, None)
L_newfile == Line("new file mode", "100600", None, None)
L_deleted == Line("deleted file mode", "100664", None, None)
\* "index abc123..def456 100700" and "index abc123..def456"
L_index == Line("index", "abc123", "def456", "100700")
L_index_nomode == Line("index", "abc123", "def456", None)
\* a line of a diff body; it holds the words "diff --git", but not at its start
L_body == Line("+", "see diff --git", None, None)

Lines == {L_pair, L_nopair, L_sim, L_from, L_to, L_old, L_new, L_newfile,
          L_deleted, L_index, L_index_nomode, L_body}

Texts == UNION { [1..n -> Lines] : n \in 0..MaxLines }

\* A piece of a split text: its lines, and whether its last line is still
\* followed by a newline inside the piece.
Piece(lines, nl) == [lines |-> lines, nl |-> nl]

\* ('\n' + text).split('\ndiff --git'): a new piece starts at every line that
\* starts with the marker; the newline before the marker goes with the marker.
RECURSIVE split_scan(_, _, _)
split_scan(t, nl, acc) ==
    IF t = <<>>
      THEN [acc EXCEPT ![Len(acc)].nl = nl]
      ELSE IF Head(t).kind = "diff --git"
             THEN split_scan(Tail(t), nl, Append(acc, Piece(<<Head(t)>>, FALSE)))
             ELSE split_scan(Tail(t), nl,
                             [acc EXCEPT ![Len(acc)].lines = Append(@, Head(t))])

split(t, nl) == split_scan(t, nl, <<Piece(<<>>, FALSE)>>)

\* ('\n' + text).split('\ndiff --git')[1:]
Segments(t, nl) == Tail(split(t, nl))

NoMatch == [matched |-> FALSE]

\* diff_header(diff): the header pattern matched at the start of a segment.
\* The path pair must be followed by a newline; each optional block is taken
\* when all of its lines follow at the current position, and skipped otherwise.
diff_header(seg) ==
    LET L == seg.lines
        n == Len(L)
        kindAt(k) == IF k <= n THEN L[k].kind ELSE "<end>"
        hasNL(k) == k < n \/ seg.nl
        rename == /\ kindAt(2) = "similarity index"
                  /\ kindAt(3) = "rename from"
                  /\ kindAt(4) = "rename to"
        p2 == IF rename THEN 5 ELSE 2
        mode == kindAt(p2) = "old mode" /\ kindAt(p2 + 1) = "new mode"
        p3 == IF mode THEN p2 + 2 ELSE p2
        newfile == kindAt(p3) = "new file mode"
        p4 == IF newfile THEN p3 + 1 ELSE p3
        deleted == kindAt(p4) = "deleted file mode"
        p5 == IF deleted THEN p4 + 1 ELSE p4
        index == kindAt(p5) = "index"
        p6 == IF index THEN p5 + 1 ELSE p5
    IN IF n >= 1 /\ L[1].kind = "diff --git" /\ L[1].a # None /\ hasNL(1)
         THEN [matched |-> TRUE,
               a_path |-> L[1].a,
               b_path |-> L[1].b,
               similarity_index |-> IF rename THEN L[2].a ELSE None,
               rename_from |-> IF rename THEN L[3].a ELSE None,
               rename_to |-> IF rename THEN L[4].a ELSE None,
               old_mode |-> IF mode THEN L[p2].a ELSE None,
               new_mode |-> IF mode THEN L[p2 + 1].a ELSE None,
               new_file_mode |-> IF newfile THEN L[p3].a ELSE None,
               deleted_file_mode |-> IF deleted THEN L[p4].a ELSE None,
               a_commit |-> IF index THEN L[p5].a ELSE None,
               b_commit |-> IF index THEN L[p5].b ELSE None,
               b_mode |-> IF index THEN L[p5].c ELSE None,
               end |-> p6 - 1]
         ELSE NoMatch

\* the mutant: new_mode or b_mode
b_mode_arg_skips_new_file(h) == PyOr(h.new_mode, h.b_mode)

\* the mutant: deleted_file = bool(old_mode or deleted_file_mode)
deleted_file_from_a_mode(h) == Truthy(PyOr(h.old_mode, h.deleted_file_mode))

\* new_file, deleted_file = bool(new_file_mode), bool(deleted_file_mode)
new_file_arg(h) == Truthy(h.new_file_mode)

deleted_file_arg(h) == Truthy(h.deleted_file_mode)

\* old_mode or deleted_file_mode
a_mode_arg(h) == PyOr(h.old_mode, h.deleted_file_mode)

\* new_mode or new_file_mode or b_mode
b_mode_arg(h) == PyOr(PyOr(h.new_mode, h.new_file_mode), h.b_mode)

\* Diff(repo, a_path, b_path, a_commit, b_commit, old_mode or deleted_file_mode,
\*      new_mode or new_file_mode or b_mode, new_file, deleted_file,
\*      diff[header.end():])
Diff(h, seg) ==
    [a_path |-> h.a_path,
     b_path |-> h.b_path,
     a_commit |-> h.a_commit,
     b_commit |-> h.b_commit,
     a_mode |-> a_mode_arg(h),
     b_mode |-> b_mode_arg(h),
     new_file |-> new_file_arg(h),
     deleted_file |-> deleted_file_arg(h),
     diff |-> Piece(SubSeq(seg.lines, h.end + 1, Len(seg.lines)), seg.nl)]

\* header.groups() on a header that is None
AttributeError ==
    [exc |-> "AttributeError", msg |-> "'NoneType' object has no attribute 'groups'"]

InitDiff ==
    /\ pc = "for_diff"
    /\ result = NoResult
    /\ error = NoError
    /\ store = [k \in 1..NObj |-> [type |-> "commit", object |-> 0]]
    /\ refObj = 1
    /\ obj = 0
    /\ hops = 0
    /\ localTags = {}
    /\ args = NoArgs
    /\ calls = <<>>
    /\ j = 0
    /\ text \in Texts
    /\ endsNL \in BOOLEAN
    /\ i = 1
    /\ diffs = <<>>

\* the mutant: a segment the pattern does not match is skipped
for_diff_body_skips ==
    /\ pc = "for_diff"
    /\ i <= Len(Segments(text, endsNL))
    /\ LET diff == Segments(text, endsNL)[i]
           header == diff_header(diff)
       IN diffs' = IF header.matched THEN Append(diffs, Diff(header, diff)) ELSE diffs
    /\ i' = i + 1
    /\ UNCHANGED <<pc, error, result, text, endsNL>>
    /\ UNCHANGED tagVars /\ UNCHANGED cmdVars

\* for diff in (...): header = diff_header(diff); ... = header.groups();
\* diffs.append(Diff(...))
for_diff_body ==
    /\ pc = "for_diff"
    /\ i <= Len(Segments(text, endsNL))
    /\ LET diff == Segments(text, endsNL)[i]
           header == diff_header(diff)
       IN IF header.matched
            THEN /\ diffs' = Append(diffs, Diff(header, diff))
                 /\ i' = i + 1
                 /\ UNCHANGED <<pc, error>>
            ELSE /\ pc' = "raised"
                 /\ error' = AttributeError
                 /\ UNCHANGED <<diffs, i>>
    /\ UNCHANGED <<result, text, endsNL>>
    /\ UNCHANGED tagVars /\ UNCHANGED cmdVars

\* the loop ends when the segments are used up
for_diff_exit ==
    /\ pc = "for_diff"
    /\ i > Len(Segments(text, endsNL))
    /\ pc' = "for_done"
    /\ UNCHANGED <<result, error>>
    /\ UNCHANGED tagVars /\ UNCHANGED cmdVars /\ UNCHANGED diffVars

NextDiff ==
    \/ for_diff_body
    \/ for_diff_exit

SpecDiff == InitDiff /\ [][NextDiff]_vars

----
\* The lines of the text that start with the marker, the m-th of them, and the
\* lines of the m-th per-file segment (from its marker line to the line before
\* the next marker, or to the end of the text).
MarkerPos == { k \in 1..Len(text) : text[k].kind = "diff --git" }

NthMarker(m) == CHOOSE k \in MarkerPos : Cardinality({ x \in MarkerPos : x < k }) = m - 1

SegStop(m) == IF m = Cardinality(MarkerPos) THEN Len(text) ELSE NthMarker(m + 1) - 1

SegLines(m) == SubSeq(text, NthMarker(m), SegStop(m))

\* The marker line at k is followed by a path pair.
HasPathPair(k) == text[k].a # None /\ text[k].b # None

\* The path-pair line at k is followed by a newline inside its segment: another
\* line of the segment follows it, or it ends a text that ends with a newline.
PathPairTerminated(k) ==
    \/ k < Len(text) /\ text[k + 1].kind # "diff --git"
    \/ k = Len(text) /\ endsNL

\* The header lines of the m-th record: the lines of its segment before its body.
HeaderLines(m) ==
    SubSeq(text, NthMarker(m), SegStop(m) - Len(diffs[m].diff.lines))

Has(hdr, kind) == \E k \in 1..Len(hdr) : hdr[k].kind = kind

LineOf(hdr, kind) == hdr[CHOOSE k \in 1..Len(hdr) : hdr[k].kind = kind]

\* The m-th record is built from the m-th segment: its paths are those of the
\* segment's marker line, its body is the end of the segment, and its hashes
\* are there when the header lines before the body hold an index line.
RecordFromSegment(m) ==
    LET body == diffs[m].diff.lines
        stop == SegStop(m)
        start == NthMarker(m)
    IN /\ Len(body) <= stop - start
       /\ body = SubSeq(text, stop - Len(body) + 1, stop)
       /\ diffs[m].a_path = text[start].a
       /\ diffs[m].b_path = text[start].b
       /\ (diffs[m].a_commit # None) = Has(SubSeq(text, start, stop - Len(body)), "index")

NRecordsInOrder ==
    /\ pc = "for_done"
    /\ Len(diffs) = Cardinality(MarkerPos)
    /\ \A m \in 1..Len(diffs) : RecordFromSegment(m)

\* C5 (as stated): parsing a diff text with N per-file segments, each starting
\* with a path pair, yields exactly N records, the i-th built from the i-th
\* segment; text before the first marker contributes no record.
C5_NSegmentsNRecords ==
    (pc # "for_diff" /\ \A k \in MarkerPos : HasPathPair(k)) => NRecordsInOrder

\* What the loop does deliver: when every path pair is also followed by a newline
\* inside its segment, the N segments yield N records in order.
NRecordsWhenPathPairsTerminated ==
    (pc # "for_diff" /\ \A k \in MarkerPos : HasPathPair(k) /\ PathPairTerminated(k))
        => NRecordsInOrder

\* C6 (as stated): if a segment does not start with the path pair, the call fails
\* with an error that identifies the position of that segment; the segment is
\* not skipped and no record list is returned.
C6_ErrorNamesSegment ==
    (pc # "for_diff" /\ \E k \in MarkerPos : ~HasPathPair(k)) =>
        /\ pc = "raised"
        /\ "position" \in DOMAIN error
        /\ ~HasPathPair(NthMarker(error.position))

\* C6 (amended): if a segment does not start with the path pair, the call never
\* returns a record list and no segment is skipped: it fails at the first
\* segment the header pattern does not match, after building one record for
\* every segment before it, with an AttributeError that names no position.
C6_FailsWithoutPosition ==
    /\ pc = "for_done" => \A k \in MarkerPos : HasPathPair(k)
    /\ pc = "raised" =>
        /\ error = AttributeError
        /\ DOMAIN error = {"exc", "msg"}
        /\ i \in 1..Cardinality(MarkerPos)
        /\ ~HasPathPair(NthMarker(i)) \/ ~PathPairTerminated(NthMarker(i))
        /\ Len(diffs) = i - 1
        /\ \A m \in 1..(i - 1) :
            /\ HasPathPair(NthMarker(m)) /\ PathPairTerminated(NthMarker(m))
            /\ RecordFromSegment(m)
        /\ result = NoResult

C6_Witness ==
    /\ pc = "raised"
    /\ i = 2
    /\ Len(diffs) = 1
    /\ ~HasPathPair(NthMarker(2))
    /\ error.exc = "AttributeError"

\* C7 (as stated): every record the parser produces has new_file and deleted_file
\* mutually exclusive, whatever optional header lines the segment holds.
C7_NewAndDeletedExclusive ==
    \A m \in 1..Len(diffs) : ~(diffs[m].new_file /\ diffs[m].deleted_file)

\* C7 (amended): every record has new_file true exactly when its header holds a
\* new-file-mode line and deleted_file true exactly when it holds a
\* deleted-file-mode line; the two are never both true unless the header holds
\* both lines, which the header pattern accepts.
C7_FlagsFollowHeaderLines ==
    \A m \in 1..Len(diffs) :
        LET hdr == HeaderLines(m)
        IN /\ diffs[m].new_file = Has(hdr, "new file mode")
           /\ diffs[m].deleted_file = Has(hdr, "deleted file mode")
           /\ (diffs[m].new_file /\ diffs[m].deleted_file) =>
                \E k \in 2..(Len(hdr) - 1) :
                    hdr[k] = L_newfile /\ hdr[k + 1] = L_deleted

C7_Witness ==
    /\ pc = "for_done"
    /\ \E m \in 1..Len(diffs) :
        /\ Has(HeaderLines(m), "old mode")
        /\ Has(HeaderLines(m), "deleted file mode")
        /\ diffs[m].deleted_file
        /\ ~diffs[m].new_file

\* C8 (as stated): a rename-only header (similarity index, rename from, rename to;
\* no mode or index lines) yields a record whose renamedFrom and renamedTo are
\* the captured paths and whose mode and blob-hash fields are all absent.
C8_RenameOnlyRecord ==
    \A m \in 1..Len(diffs) :
        SegLines(m) = <<L_pair, L_sim, L_from, L_to>> =>
            /\ diffs[m].a_mode = None /\ diffs[m].b_mode = None
            /\ diffs[m].a_commit = None /\ diffs[m].b_commit = None
            /\ {"rename_from", "rename_to"} \subseteq DOMAIN diffs[m]
            /\ diffs[m].rename_from = L_from.a
            /\ diffs[m].rename_to = L_to.a

\* The part of C8 the record does satisfy: the mode and blob-hash fields of a
\* rename-only record are all absent.
RenameOnlyRecordHasNoModes ==
    \A m \in 1..Len(diffs) :
        SegLines(m) = <<L_pair, L_sim, L_from, L_to>> =>
            /\ diffs[m].a_mode = None /\ diffs[m].b_mode = None
            /\ diffs[m].a_commit = None /\ diffs[m].b_commit = None
            /\ diffs[m].diff.lines = <<>>

\* C9: for every accepted header, the record's a_mode is the old-mode field if
\* present, otherwise the deleted-file-mode field, otherwise absent; its b_mode
\* is the new-mode field if present, otherwise the new-file-mode field,
\* otherwise the trailing mode of the index line, otherwise absent.
C9_ModePriority ==
    \A m \in 1..Len(diffs) :
        LET hdr == HeaderLines(m)
        IN /\ diffs[m].a_mode =
                (IF Has(hdr, "old mode") THEN LineOf(hdr, "old mode").a
                 ELSE IF Has(hdr, "deleted file mode")
                        THEN LineOf(hdr, "deleted file mode").a
                 ELSE None)
           /\ diffs[m].b_mode =
                (IF Has(hdr, "new mode") THEN LineOf(hdr, "new mode").a
                 ELSE IF Has(hdr, "new file mode")
                        THEN LineOf(hdr, "new file mode").a
                 ELSE IF Has(hdr, "index") THEN LineOf(hdr, "index").c
                 ELSE None)

C9_Witness ==
    /\ pc = "for_done"
    /\ \E m \in 1..Len(diffs) :
        LET hdr == HeaderLines(m)
        IN /\ Has(hdr, "new file mode")
           /\ Has(hdr, "index")
           /\ LineOf(hdr, "index").c # None
           /\ diffs[m].b_mode = L_newfile.a
           /\ diffs[m].a_mode = None

====
